---------------------------- MODULE Spec2Model ----------------------------
(***************************************************************************)
(* Model of .scripts/feishu.py: a JSON array of records is rendered into a *)
(* Feishu card (create_feishu_list_card), posted once to the webhook       *)
(* (send_feishu_card) and the process exits with the delivery result       *)
(* (main).                                                                 *)
(*                                                                         *)
(* Text is a sequence of one-character strings; a code point outside ASCII *)
(* is the single element "U+XXXX".  A Python value is a record with a type *)
(* tag t ("none", "str", "int", "bool", "dict", "list") and one payload    *)
(* field per type: s (the text of a str), n (an int), b (a bool), d (the   *)
(* <<key, value>> pairs of a dict, in key order), l (the elements of a     *)
(* list); the fields of the other types keep their empty values.           *)
(***************************************************************************)
EXTENDS Integers, Sequences, FiniteSets, TLC

(***************************************************************************)
(* Bounds of the model.                                                    *)
(***************************************************************************)
MaxItems == 2

(***************************************************************************)
(* Python values.                                                          *)
(***************************************************************************)
None == [t |-> "none", s |-> <<>>, n |-> 0, b |-> FALSE, d |-> <<>>, l |-> <<>>]
PyStr(text) == [None EXCEPT !.t = "str", !.s = text]
PyInt(num) == [None EXCEPT !.t = "int", !.n = num]
PyBool(bool) == [None EXCEPT !.t = "bool", !.b = bool]
PyDict(fields) == [None EXCEPT !.t = "dict", !.d = fields]
PyList(elems) == [None EXCEPT !.t = "list", !.l = elems]

\* Python truthiness of the values this program tests with "if x:"
Truthy(x) ==
    CASE x.t = "none" -> FALSE
      [] x.t = "str"  -> x.s # <<>>
      [] x.t = "int"  -> x.n # 0
      [] x.t = "bool" -> x.b
      [] x.t = "dict" -> x.d # <<>>
      [] x.t = "list" -> x.l # <<>>

(***************************************************************************)
(* str methods used by the program.                                        *)
(***************************************************************************)
UpperAlpha == <<"A","B","C","D","E","F","G","H","I","J","K","L","M",
                "N","O","P","Q","R","S","T","U","V","W","X","Y","Z">>
LowerAlpha == <<"a","b","c","d","e","f","g","h","i","j","k","l","m",
                "n","o","p","q","r","s","t","u","v","w","x","y","z">>
Digits == <<"0","1","2","3","4","5","6","7","8","9">>

Range(s) == {s[i] : i \in 1..Len(s)}

\* str.lower(), one character
LowerChar(c) ==
    IF c \in Range(UpperAlpha)
    THEN LowerAlpha[CHOOSE i \in 1..26 : UpperAlpha[i] = c]
    ELSE c

\* str.lower()
Lower(s) == [i \in 1..Len(s) |-> LowerChar(s[i])]

\* the whitespace str.strip() removes, within the model's alphabet
IsSpace(c) == c \in {" ", "\t", "\n"}

RECURSIVE LStripWs(_)
LStripWs(s) ==
    IF s # <<>> /\ IsSpace(Head(s)) THEN LStripWs(Tail(s)) ELSE s

RECURSIVE RStripWs(_)
RStripWs(s) ==
    IF s # <<>> /\ IsSpace(s[Len(s)])
    THEN RStripWs(SubSeq(s, 1, Len(s) - 1)) ELSE s

\* str.strip()
Strip(s) == RStripWs(LStripWs(s))

RECURSIVE LStripChar(_, _)
\* str.lstrip(c)
LStripChar(s, c) ==
    IF s # <<>> /\ Head(s) = c THEN LStripChar(Tail(s), c) ELSE s

RECURSIVE RStripChar(_, _)
\* str.rstrip(c)
RStripChar(s, c) ==
    IF s # <<>> /\ s[Len(s)] = c
    THEN RStripChar(SubSeq(s, 1, Len(s) - 1), c) ELSE s

\* str.startswith(p)
StartsWith(s, p) == Len(s) >= Len(p) /\ SubSeq(s, 1, Len(p)) = p

\* str.find(c, start), 1-based; 0 when c does not occur
Find(s, c, start) ==
    LET I == {i \in start..Len(s) : s[i] = c}
    IN  IF I = {} THEN 0 ELSE CHOOSE i \in I : \A j \in I : i <= j

RECURSIVE Split(_, _)
\* str.split(c)
Split(s, c) ==
    LET i == Find(s, c, 1)
    IN  IF i = 0 THEN <<s>>
        ELSE <<SubSeq(s, 1, i - 1)>> \o Split(SubSeq(s, i + 1, Len(s)), c)

RECURSIVE Join(_, _)
\* sep.join(parts)
Join(parts, sep) ==
    IF parts = <<>> THEN <<>>
    ELSE IF Len(parts) = 1 THEN parts[1]
    ELSE parts[1] \o sep \o Join(Tail(parts), sep)

RECURSIVE StrNat(_)
StrNat(n) ==
    IF n < 10 THEN <<Digits[n + 1]>>
    ELSE StrNat(n \div 10) \o <<Digits[(n % 10) + 1]>>

\* str(n) of an int
StrInt(n) == IF n < 0 THEN <<"-">> \o StrNat(0 - n) ELSE StrNat(n)

(***************************************************************************)
(* urllib.parse, as far as urljoin uses it.  The model's alphabet has no   *)
(* ";", "[", "]", "@" and no non-ASCII character in a URL, so the params   *)
(* component is always empty and the netloc checks never raise.            *)
(***************************************************************************)
\* urllib.parse.uses_relative
UsesRelative ==
    {<<>>, <<"f", "t", "p">>, <<"h", "t", "t", "p">>,
     <<"g", "o", "p", "h", "e", "r">>, <<"n", "n", "t", "p">>,
     <<"i", "m", "a", "p">>, <<"w", "a", "i", "s">>, <<"f", "i", "l", "e">>,
     <<"h", "t", "t", "p", "s">>, <<"s", "h", "t", "t", "p">>,
     <<"m", "m", "s">>, <<"p", "r", "o", "s", "p", "e", "r", "o">>,
     <<"r", "t", "s", "p">>, <<"r", "t", "s", "p", "s">>,
     <<"r", "t", "s", "p", "u">>, <<"s", "f", "t", "p">>, <<"s", "v", "n">>,
     <<"s", "v", "n", "+", "s", "s", "h">>, <<"w", "s">>, <<"w", "s", "s">>}
\* urllib.parse.uses_netloc
UsesNetloc ==
    {<<>>, <<"f", "t", "p">>, <<"h", "t", "t", "p">>,
     <<"g", "o", "p", "h", "e", "r">>, <<"n", "n", "t", "p">>,
     <<"t", "e", "l", "n", "e", "t">>, <<"i", "m", "a", "p">>,
     <<"w", "a", "i", "s">>, <<"f", "i", "l", "e">>, <<"m", "m", "s">>,
     <<"h", "t", "t", "p", "s">>, <<"s", "h", "t", "t", "p">>,
     <<"s", "n", "e", "w", "s">>, <<"p", "r", "o", "s", "p", "e", "r", "o">>,
     <<"r", "t", "s", "p">>, <<"r", "t", "s", "p", "s">>,
     <<"r", "t", "s", "p", "u">>, <<"r", "s", "y", "n", "c">>,
     <<"s", "v", "n">>, <<"s", "v", "n", "+", "s", "s", "h">>,
     <<"s", "f", "t", "p">>, <<"n", "f", "s">>, <<"g", "i", "t">>,
     <<"g", "i", "t", "+", "s", "s", "h">>, <<"w", "s">>, <<"w", "s", "s">>}
SchemeChars == Range(LowerAlpha) \cup Range(UpperAlpha) \cup Range(Digits)
                 \cup {"+", "-", "."}
IsAlpha(c) == c \in Range(LowerAlpha) \cup Range(UpperAlpha)

\* _UNSAFE_URL_BYTES_TO_REMOVE
RemoveUnsafe(s) == SelectSeq(s, LAMBDA c : c \notin {"\t", "\n"})

\* _splitnetloc(url, 2): 1-based position of the end of the domain part
NetlocEnd(url) ==
    LET I == {i \in 3..Len(url) : url[i] \in {"/", "?", "#"}}
    IN  IF I = {} THEN Len(url) + 1 ELSE CHOOSE i \in I : \A j \in I : i <= j

\* urlsplit, last step: the query is what follows the first "?" (at q, 0: none)
SplitQueryAt(scheme, netloc, url, fragment, q) ==
    [scheme |-> scheme, netloc |-> netloc,
     path |-> IF q > 0 THEN SubSeq(url, 1, q - 1) ELSE url,
     query |-> IF q > 0 THEN SubSeq(url, q + 1, Len(url)) ELSE <<>>,
     fragment |-> fragment]

\* urlsplit: the fragment is what follows the first "#" (at h, 0: none)
SplitFragmentAt(scheme, netloc, url, h) ==
    IF h > 0
    THEN SplitQueryAt(scheme, netloc, SubSeq(url, 1, h - 1),
                      SubSeq(url, h + 1, Len(url)),
                      Find(SubSeq(url, 1, h - 1), "?", 1))
    ELSE SplitQueryAt(scheme, netloc, url, <<>>, Find(url, "?", 1))

\* urlsplit: if url[:2] == '//': netloc, url = _splitnetloc(url, 2)
SplitNetloc(scheme, url) ==
    IF StartsWith(url, <<"/", "/">>)
    THEN SplitFragmentAt(scheme, SubSeq(url, 3, NetlocEnd(url) - 1),
                         SubSeq(url, NetlocEnd(url), Len(url)),
                         Find(SubSeq(url, NetlocEnd(url), Len(url)), "#", 1))
    ELSE SplitFragmentAt(scheme, <<>>, url, Find(url, "#", 1))

\* urlsplit: the scheme is what precedes the first ":" (at i, 0: none), if
\* it starts with a letter and consists of scheme characters
SplitSchemeAt(url, scheme, i) ==
    IF /\ i > 1
       /\ IsAlpha(url[1])
       /\ \A j \in 1..(i - 1) : url[j] \in SchemeChars
    THEN SplitNetloc(Lower(SubSeq(url, 1, i - 1)), SubSeq(url, i + 1, Len(url)))
    ELSE SplitNetloc(scheme, url)

\* after url.lstrip(_WHATWG_C0_CONTROL_OR_SPACE) and the removal of unsafe bytes
SplitCleaned(url, scheme) == SplitSchemeAt(url, scheme, Find(url, ":", 1))

\* urlsplit(url, scheme)
UrlSplit(url, scheme) == SplitCleaned(RemoveUnsafe(LStripWs(url)), scheme)

\* urlunsplit: the query and the fragment are appended
UnsplitTail(url, query, fragment) ==
    url \o (IF query # <<>> THEN <<"?">> \o query ELSE <<>>)
        \o (IF fragment # <<>> THEN <<"#">> \o fragment ELSE <<>>)

\* urlunsplit((scheme, netloc, url, query, fragment))
UrlUnsplit(scheme, netloc, path, query, fragment) ==
    UnsplitTail(
        (IF scheme # <<>> THEN scheme \o <<":">> ELSE <<>>)
        \o (IF \/ netloc # <<>>
               \/ (scheme # <<>> /\ scheme \in UsesNetloc
                     /\ ~StartsWith(path, <<"/", "/">>))
            THEN <<"/", "/">> \o netloc \o
                 (IF path # <<>> /\ Head(path) # "/"
                  THEN <<"/">> \o path ELSE path)
            ELSE path),
        query, fragment)

RECURSIVE ResolveSegments(_, _)
\* the loop of urljoin that removes "." and ".." segments
ResolveSegments(segs, resolved) ==
    IF segs = <<>> THEN resolved
    ELSE IF Head(segs) = <<".", ".">>
         THEN ResolveSegments(Tail(segs),
                 IF resolved = <<>> THEN resolved
                 ELSE SubSeq(resolved, 1, Len(resolved) - 1))
    ELSE IF Head(segs) = <<".">>
         THEN ResolveSegments(Tail(segs), resolved)
    ELSE ResolveSegments(Tail(segs), Append(resolved, Head(segs)))

\* base_parts = bpath.split('/'), without its last item unless that is ''
BaseParts(parts) ==
    IF parts[Len(parts)] # <<>> THEN SubSeq(parts, 1, Len(parts) - 1) ELSE parts

\* segments[1:-1] = filter(None, segments[1:-1])
FilterMiddle(segments) ==
    IF Len(segments) <= 2 THEN segments
    ELSE <<segments[1]>>
         \o SelectSeq(SubSeq(segments, 2, Len(segments) - 1),
                      LAMBDA seg : seg # <<>>)
         \o <<segments[Len(segments)]>>

\* the segments of the path to resolve
Segments(bpath, path) ==
    IF Head(path) = "/" THEN Split(path, "/")
    ELSE FilterMiddle(BaseParts(Split(bpath, "/")) \o Split(path, "/"))

\* '/'.join(resolved_path) or '/'
JoinResolved(resolved_path) ==
    IF Join(resolved_path, <<"/">>) = <<>> THEN <<"/">>
    ELSE Join(resolved_path, <<"/">>)

\* the resolved path: a last segment "." or ".." leaves a trailing "/"
ResolvedPath(segments) ==
    JoinResolved(
        IF segments[Len(segments)] \in {<<".">>, <<".", ".">>}
        THEN Append(ResolveSegments(segments, <<>>), <<>>)
        ELSE ResolveSegments(segments, <<>>))

\* urljoin once base (b) and url (u) are parsed
JoinParsed(b, u, url) ==
    IF u.scheme # b.scheme \/ u.scheme \notin UsesRelative THEN url
    ELSE IF u.scheme \in UsesNetloc /\ u.netloc # <<>>
    THEN UrlUnsplit(u.scheme, u.netloc, u.path, u.query, u.fragment)
    ELSE IF u.path = <<>>
    THEN UrlUnsplit(u.scheme,
                    IF u.scheme \in UsesNetloc THEN b.netloc ELSE u.netloc,
                    b.path,
                    IF u.query = <<>> THEN b.query ELSE u.query,
                    u.fragment)
    ELSE UrlUnsplit(u.scheme,
                    IF u.scheme \in UsesNetloc THEN b.netloc ELSE u.netloc,
                    ResolvedPath(Segments(b.path, u.path)),
                    u.query, u.fragment)

\* urljoin with base parsed: url is parsed with the scheme of base as default
JoinBase(b, url) == JoinParsed(b, UrlSplit(url, b.scheme), url)

\* urljoin(base, url)
UrlJoin(base, url) ==
    IF base = <<>> THEN url
    ELSE IF url = <<>> THEN base
    ELSE JoinBase(UrlSplit(base, <<>>), url)

(***************************************************************************)
(* ensure_url                                                              *)
(***************************************************************************)
S_httpSlash == <<"h","t","t","p",":","/","/">>
S_httpsSlash == <<"h","t","t","p","s",":","/","/">>

\* faulty variant of ensure_url: text is not stripped
ensure_url_unstripped(text, base_url) ==
    IF text.t # "str" THEN None
    ELSE IF StartsWith(text.s, S_httpSlash) \/ StartsWith(text.s, S_httpsSlash)
    THEN PyStr(text.s)
    ELSE IF Truthy(base_url)
    THEN PyStr(UrlJoin(RStripChar(base_url.s, "/") \o <<"/">>,
                       LStripChar(text.s, "/")))
    ELSE None

\* ensure_url(text, base_url); the result is None or a str
ensure_url(text, base_url) ==
    IF text.t # "str" THEN None
    ELSE
    LET stripped == Strip(text.s)
    IN  IF StartsWith(stripped, S_httpSlash) \/ StartsWith(stripped, S_httpsSlash)
        THEN PyStr(stripped)
        ELSE IF Truthy(base_url)
        THEN PyStr(UrlJoin(RStripChar(base_url.s, "/") \o <<"/">>,
                           LStripChar(stripped, "/")))
        ELSE None

(***************************************************************************)
(* Text constants of the program and of the sample inputs.                 *)
(***************************************************************************)
S_url == <<"u", "r", "l">>
S_link == <<"l", "i", "n", "k">>
S_href == <<"h", "r", "e", "f">>
S_website == <<"w", "e", "b", "s", "i", "t", "e">>
S_page == <<"p", "a", "g", "e">>
S_name == <<"n", "a", "m", "e">>
S_status == <<"s", "t", "a", "t", "u", "s">>
S_note == <<"n", "o", "t", "e">>
S_ok == <<"o", "k">>
S_success == <<"s", "u", "c", "c", "e", "s", "s">>
S_fail == <<"f", "a", "i", "l">>
S_error == <<"e", "r", "r", "o", "r">>
S_done == <<"d", "o", "n", "e">>
S_completed == <<"c", "o", "m", "p", "l", "e", "t", "e", "d">>
S_running == <<"r", "u", "n", "n", "i", "n", "g">>
S_pending == <<"p", "e", "n", "d", "i", "n", "g">>
S_warning == <<"w", "a", "r", "n", "i", "n", "g">>
\* the glyphs of DEFAULT_EMOJI_MAP
G_check == <<"U+2705">>
G_cross == <<"U+274C">>
G_cycle == <<"U+1F504">>
G_hourglass == <<"U+23F3">>
G_warn == <<"U+26A0", "U+FE0F">>
\* display_text, the fixed link label
S_display_text == <<"U+1F517", " ", "U+67E5", "U+770B", "U+8BE6", "U+60C5">>
\* the placeholder of a None value
S_dash == <<"U+2014">>
\* the prefix of the render-error placeholder
S_render_error == <<"U+26A0", "U+FE0F", " ", "U+6E32", "U+67D3", "U+9519", "U+8BEF", ":", " ">>
S_default_title == <<"U+7CFB", "U+7EDF", "U+901A", "U+77E5">>
S_default_header == <<"*", "*", "U+6570", "U+636E", "U+5217", "U+8868", "U+62A5", "U+544A", "*", "*">>
\* the default of --link-fields
S_link_fields_arg == <<"u", "r", "l", ",", "l", "i", "n", "k", ",", "h", "r", "e", "f">>
S_True == <<"T", "r", "u", "e">>
S_False == <<"F", "a", "l", "s", "e">>
S_None == <<"N", "o", "n", "e">>
S_AttributeError == <<"A", "t", "t", "r", "i", "b", "u", "t", "e", "E", "r", "r", "o", "r">>
S_KeyError == <<"K", "e", "y", "E", "r", "r", "o", "r">>
S_TypeError == <<"T", "y", "p", "e", "E", "r", "r", "o", "r">>
S_A == <<"A">>
S_B == <<"B">>
S_x_com == <<"h", "t", "t", "p", "s", ":", "/", "/", "x", ".", "c", "o", "m">>
S_x_com_padded == <<" ", "h", "t", "t", "p", "s", ":", "/", "/", "x", ".", "c", "o", "m", " ", "\n">>
S_Success == <<"S", "u", "c", "c", "e", "s", "s">>
S_SUCCESS == <<"S", "U", "C", "C", "E", "S", "S">>
S_DONE == <<"D", "O", "N", "E">>
S_slash42 == <<"/", "4", "2">>
S_42 == <<"4", "2">>
S_docs == <<"d", "o", "c", "s">>
S_base_slash == <<"h", "t", "t", "p", "s", ":", "/", "/", "e", "x", ".", "c", "o", "m", "/", "i", "t", "e", "m", "s", "/">>
S_base_noslash == <<"h", "t", "t", "p", "s", ":", "/", "/", "e", "x", ".", "c", "o", "m", "/", "i", "t", "e", "m", "s">>
\* the example of the --link-prefix help text
S_base_fragment == <<"h", "t", "t", "p", "s", ":", "/", "/", "e", "x", "a", "m", "p", "l", "e", ".", "c", "o", "m", "/", "#", "/", "i", "t", "e", "m", "/">>
\* a base URL whose scheme is not http(s)
S_base_sftp == <<"s", "f", "t", "p", ":", "/", "/", "h", "/", "d">>
\* a value of FEISHU_WEBHOOK_URL
S_hook == <<"h", "t", "t", "p", "s", ":", "/", "/", "h", "o", "o", "k">>

(***************************************************************************)
(* Configuration of the program.  A colour name is compared whole, so it   *)
(* is a plain string.                                                      *)
(***************************************************************************)
COLORS == {"carmine", "orange", "wathet", "turquoise", "green",
           "yellow", "red", "violet", "purple", "indigo",
           "grey", "default", "blue"}

DEFAULT_LINK_FIELDS == {S_url, S_link, S_href, S_website, S_page}

\* a dict of str to str: the sequence of its <<key, value>> pairs
DEFAULT_EMOJI_MAP ==
    << <<S_success, G_check>>, <<S_fail, G_cross>>, <<S_error, G_cross>>,
       <<S_done, G_check>>, <<S_completed, G_check>>, <<S_running, G_cycle>>,
       <<S_pending, G_hourglass>>, <<S_warning, G_warn>> >>

\* key in d
InDict(d, key) == \E i \in 1..Len(d) : d[i][1] = key

\* d.get(key, None)
DictGet(d, key) ==
    IF InDict(d, key)
    THEN PyStr(d[CHOOSE i \in 1..Len(d) : d[i][1] = key][2])
    ELSE None

\* str(v) of the scalar values of the model
PyToStr(v) ==
    CASE v.t = "str"  -> v.s
      [] v.t = "int"  -> StrInt(v.n)
      [] v.t = "bool" -> IF v.b THEN S_True ELSE S_False
      [] v.t = "none" -> S_None

(***************************************************************************)
(* default_render.  The outcome of a renderer call is                      *)
(*   [ok |-> TRUE,  v |-> the returned str, lines |-> its lines, exc |-> <<>>]   *)
(*   [ok |-> FALSE, v |-> <<>>, lines |-> <<>>, exc |-> the exception's type name] *)
(***************************************************************************)
Returned(content, ls) == [ok |-> TRUE, v |-> content, lines |-> ls, exc |-> <<>>]
Raised(excName) == [ok |-> FALSE, v |-> <<>>, lines |-> <<>>, exc |-> excName]

\* one iteration of the loop over item.items(): the line appended for (k, v)
FieldLine(k, v, link_fields, link_prefix, emoji_fields) ==
    LET url == IF k \in link_fields THEN ensure_url(v, link_prefix) ELSE None
        emoji == IF v.t = "str" /\ InDict(emoji_fields, k)
                 THEN DictGet(emoji_fields, Lower(v.s)) ELSE None
    IN  IF k \in link_fields /\ Truthy(url)
        THEN k \o <<":", " ", "[">> \o S_display_text \o <<"]", "(">>
               \o url.s \o <<")">>
        ELSE IF v.t = "str" /\ InDict(emoji_fields, k) /\ Truthy(emoji)
        THEN k \o <<":", " ">> \o emoji.s \o <<" ">> \o v.s
        ELSE k \o <<":", " ">>
               \o (IF v.t # "none" THEN PyToStr(v) ELSE S_dash)

\* default_render(item, index, _list) with the variables it closes over
default_render(item, index, list, link_fields, link_prefix, emoji_fields, compact) ==
    IF item.t # "dict" THEN Raised(S_AttributeError)
    ELSE
    LET ls == [j \in 1..Len(item.d) |->
                 FieldLine(item.d[j][1], item.d[j][2],
                           link_fields, link_prefix, emoji_fields)]
    IN  Returned(IF compact THEN Join(ls, <<" ", "|", " ">>)
                 ELSE Join(ls, <<"\n">>), ls)

(***************************************************************************)
(* Sample callables a caller may pass as render_item:                      *)
(*   render_position = lambda item, index, lst: "%d/%d" % (index + 1, len(lst))   *)
(*   render_name = lambda item, index, lst: "#%d %s" % (index + 1, item["name"])  *)
(* The first never raises; the second raises TypeError on a record that is *)
(* no dict and KeyError on a dict without "name".                          *)
(***************************************************************************)
render_position(item, index, list) ==
    Returned(StrInt(index + 1) \o <<"/">> \o StrInt(Len(list)), <<>>)

render_name(item, index, list) ==
    IF item.t # "dict" THEN Raised(S_TypeError)
    ELSE IF ~\E j \in 1..Len(item.d) : item.d[j][1] = S_name
    THEN Raised(S_KeyError)
    ELSE LET j == CHOOSE j \in 1..Len(item.d) : item.d[j][1] = S_name
         IN  Returned(<<"#">> \o StrInt(index + 1) \o <<" ">>
                        \o PyToStr(item.d[j][2]), <<>>)

\* render_item(item, index, list_items); render_item "None" is default_render
CallRender(renderer, item, index, list, link_fields, link_prefix, compact) ==
    CASE renderer = "None" ->
           default_render(item, index, list, link_fields, link_prefix,
                          DEFAULT_EMOJI_MAP, compact)
      [] renderer = "render_position" -> render_position(item, index, list)
      [] renderer = "render_name" -> render_name(item, index, list)

(***************************************************************************)
(* create_feishu_list_card: the loop body and the returned document.       *)
(***************************************************************************)
\* a card element
Div(content) ==
    [tag |-> "div", text |-> [tag |-> "lark_md", content |-> content]]

\* faulty variant of RenderContent: the placeholder does not name the exception
RenderContentNoKind(outcome) ==
    IF outcome.ok THEN outcome.v ELSE S_render_error

\* the content of a block: the rendering, or the placeholder of the except branch
RenderContent(outcome) ==
    IF outcome.ok THEN outcome.v ELSE S_render_error \o outcome.exc

\* faulty variant of AppendElement: the block is inserted at the front
AppendElementFirst(elements, content) == <<Div(content)>> \o elements

\* list_elements.append(...)
AppendElement(elements, content) == Append(elements, Div(content))

\* the returned dict
Card(title, header_text, theme, wide_screen, elements) ==
    [config |-> [wide_screen_mode |-> wide_screen],
     header |-> [template |-> theme,
                 title |-> [content |-> title, tag |-> "plain_text"]],
     elements |-> <<Div(header_text)>> \o elements]

(***************************************************************************)
(* main: argument parsing and input reading.                               *)
(***************************************************************************)
\* faulty variant of ColorAccepted: the parser has no choices
ColorAcceptedAny(c) == TRUE

\* argparse's choices=COLORS
ColorAccepted(c) == c \in COLORS

\* set(field.strip() for field in args.link_fields.split(',') if field.strip())
ParseLinkFields(arg) ==
    {Strip(f) : f \in Range(Split(arg, ","))} \ {<<>>}

\* faulty variant of ReadResult: a top-level value that is no array is taken
\* as an array of one record
ReadResultWrapsValue(inp) ==
    CASE inp.kind = "missing_file" ->
           [ok |-> FALSE, items |-> <<>>, diag |-> "file_not_found"]
      [] inp.kind = "invalid_json" ->
           [ok |-> FALSE, items |-> <<>>, diag |-> "json_decode_error"]
      [] inp.kind = "unreadable" ->
           [ok |-> FALSE, items |-> <<>>, diag |-> "read_error"]
      [] inp.kind = "json" /\ inp.value.t # "list" ->
           [ok |-> TRUE, items |-> <<inp.value>>, diag |-> ""]
      [] inp.kind = "json" /\ inp.value.t = "list" ->
           [ok |-> TRUE, items |-> inp.value.l, diag |-> ""]

\* The try block of main.  An input is [kind, value]: kind "missing_file"
\* (open raises FileNotFoundError), "unreadable" (open or read raises another
\* exception), "invalid_json" (json.loads raises JSONDecodeError) or "json"
\* (json.loads returns value).
ReadResult(inp) ==
    CASE inp.kind = "missing_file" ->
           [ok |-> FALSE, items |-> <<>>, diag |-> "file_not_found"]
      [] inp.kind = "invalid_json" ->
           [ok |-> FALSE, items |-> <<>>, diag |-> "json_decode_error"]
      [] inp.kind = "unreadable" ->
           [ok |-> FALSE, items |-> <<>>, diag |-> "read_error"]
      [] inp.kind = "json" /\ inp.value.t # "list" ->
           [ok |-> FALSE, items |-> <<>>, diag |-> "read_error"]
      [] inp.kind = "json" /\ inp.value.t = "list" ->
           [ok |-> TRUE, items |-> inp.value.l, diag |-> ""]

(***************************************************************************)
(* send_feishu_card.  A response is [kind, body]: kind "timeout",          *)
(* "connection_error" (requests.post raises), "http_error"                 *)
(* (raise_for_status raises), "invalid_json" (response.json() raises) or   *)
(* "json" (response.json() returns body).                                  *)
(***************************************************************************)
S_code == <<"c", "o", "d", "e">>
S_msg == <<"m", "s", "g">>

\* result.get("code") == 0; a body that is no dict has no get
CodeIsZero(body) ==
    /\ \E j \in 1..Len(body.d) : body.d[j][1] = S_code
    /\ LET c == body.d[CHOOSE j \in 1..Len(body.d) : body.d[j][1] = S_code][2]
       IN  \/ c.t = "int" /\ c.n = 0
           \/ c.t = "bool" /\ c.b = FALSE

\* faulty variant of SendResult: any JSON object counts as a confirmation
SendResultIgnoresCode(resp, jsonExc) ==
    CASE resp.kind = "timeout" -> [ret |-> FALSE, diag |-> "timeout"]
      [] resp.kind \in {"connection_error", "http_error"} ->
           [ret |-> FALSE, diag |-> "network_error"]
      [] resp.kind = "invalid_json" ->
           [ret |-> FALSE,
            diag |-> IF jsonExc = "RequestException" THEN "network_error"
                     ELSE "unknown_exception"]
      [] resp.kind = "json" /\ resp.body.t # "dict" ->
           [ret |-> FALSE, diag |-> "unknown_exception"]
      [] resp.kind = "json" /\ resp.body.t = "dict" ->
           [ret |-> TRUE, diag |-> "sent_ok"]

\* The return value and the printed diagnostic.  response.json() raises a
\* RequestException or a ValueError depending on the requests version: jsonExc
\* is the one raised.
SendResult(resp, jsonExc) ==
    CASE resp.kind = "timeout" -> [ret |-> FALSE, diag |-> "timeout"]
      [] resp.kind \in {"connection_error", "http_error"} ->
           [ret |-> FALSE, diag |-> "network_error"]
      [] resp.kind = "invalid_json" ->
           [ret |-> FALSE,
            diag |-> IF jsonExc = "RequestException" THEN "network_error"
                     ELSE "unknown_exception"]
      [] resp.kind = "json" /\ resp.body.t # "dict" ->
           [ret |-> FALSE, diag |-> "unknown_exception"]
      [] resp.kind = "json" /\ resp.body.t = "dict" ->
           IF CodeIsZero(resp.body) THEN [ret |-> TRUE, diag |-> "sent_ok"]
           ELSE [ret |-> FALSE, diag |-> "send_failed_code"]

\* faulty variant of ExitCode: the result of the delivery is ignored
ExitCodeAlwaysZero(ret) == 0

\* sys.exit(0) if send_feishu_card(card) else sys.exit(1)
ExitCode(ret) == IF ret THEN 0 ELSE 1

(***************************************************************************)
(* The inputs of the model.                                                *)
(***************************************************************************)
R1 == PyDict(<< <<S_name, PyStr(S_A)>>, <<S_url, PyStr(S_x_com)>>,
                <<S_status, PyStr(S_success)>> >>)
R2 == PyDict(<< <<S_status, PyStr(S_Success)>>, <<S_success, PyStr(S_DONE)>>,
                <<S_note, None>> >>)
R3 == PyDict(<< <<S_url, PyStr(S_slash42)>>, <<S_link, PyStr(S_x_com_padded)>>,
                <<S_website, PyStr(S_docs)>> >>)
R4 == PyDict(<< <<S_name, PyStr(S_B)>>, <<S_url, PyInt(42)>>,
                <<S_href, PyStr(<<>>)>>, <<S_ok, PyBool(TRUE)>> >>)
R5 == PyDict(<< <<S_url, PyStr(S_42)>>, <<S_status, PyStr(S_SUCCESS)>> >>)
R6 == PyInt(7)

\* the records an input array is made of
Pool == <<R1, R2, R3, R4, R5, R6>>

RECURSIVE IndexLists(_)
\* the sequences over 1..Len(Pool) of length at most n
IndexLists(n) ==
    IF n = 0 THEN {<<>>}
    ELSE LET shorter == IndexLists(n - 1)
         IN  shorter \cup {Append(l, k) : l \in shorter, k \in 1..Len(Pool)}

\* the arrays of at most MaxItems records
ItemLists == {[i \in 1..Len(l) |-> Pool[l[i]]] : l \in IndexLists(MaxItems)}

\* top-level JSON values that are no array
NonArrays == <<PyDict(<< <<<<"a">>, PyInt(1)>> >>), PyInt(7), None>>

\* values of --link-prefix / link_prefix
LinkPrefixes == <<None, PyStr(S_base_slash), PyStr(S_base_noslash),
                  PyStr(S_base_fragment), PyStr(S_base_sftp)>>

\* values of -c / color
Themes == {"blue", "neon", ""}

\* what the webhook may answer
Responses ==
    << [kind |-> "timeout", body |-> None],
       [kind |-> "connection_error", body |-> None],
       [kind |-> "http_error", body |-> None],
       [kind |-> "invalid_json", body |-> None],
       [kind |-> "json", body |-> PyDict(<< <<S_code, PyInt(0)>> >>)],
       [kind |-> "json",
        body |-> PyDict(<< <<S_code, PyInt(0)>>, <<S_msg, PyStr(S_success)>> >>)],
       [kind |-> "json", body |-> PyDict(<< <<S_code, PyBool(FALSE)>> >>)],
       [kind |-> "json", body |-> PyDict(<< <<S_code, PyInt(19001)>> >>)],
       [kind |-> "json", body |-> PyDict(<<>>)],
       [kind |-> "json", body |-> PyList(<<>>)] >>

(***************************************************************************)
(* State.                                                                  *)
(*   entry         "main": the script is run; "api": the module is imported *)
(*                 and create_feishu_list_card is called by other code     *)
(*   pc            position of the run                                     *)
(*   webhook       FEISHU_WEBHOOK_URL after the environment is loaded      *)
(*   color, compact, link_prefix, link_fields, render_item, list_items     *)
(*                 the arguments of create_feishu_list_card (in main: from *)
(*                 args; color is the -c value given)                      *)
(*   raw_data      what main read as its input                             *)
(*   index, list_elements, lines                                           *)
(*                 the loop of create_feishu_list_card; lines is the list  *)
(*                 built by the last call of default_render                *)
(*   card          the document returned by create_feishu_list_card: <<>>  *)
(*                 before it returns, <<document>> after                   *)
(*   posts         the payloads handed to requests.post, in order          *)
(*   response      what the webhook answered                               *)
(*   sent          the return value of send_feishu_card                    *)
(*   exit_code     the exit status of the process (-1 while it runs)       *)
(*   stderr        the diagnostics printed, in order                       *)
(* title, header_text and wide_screen keep their defaults and --verbose    *)
(* is off: they select no branch of the rendering or of the delivery.      *)
(***************************************************************************)
VARIABLES entry, pc, webhook, color, compact, link_prefix, link_fields,
          render_item, raw_data, list_items, index, list_elements, lines,
          card, posts, response, sent, exit_code, stderr

vars == <<entry, pc, webhook, color, compact, link_prefix, link_fields,
          render_item, raw_data, list_items, index, list_elements, lines,
          card, posts, response, sent, exit_code, stderr>>

argVars == <<color, compact, link_prefix, link_fields, render_item>>
loopVars == <<index, list_elements, lines>>
sendVars == <<posts, response, sent>>

NoInput == [kind |-> "none", value |-> None]
NoResponse == [kind |-> "none", body |-> None]

Init ==
    /\ entry \in {"main", "api"}
    /\ pc = "load"
    /\ webhook \in {None, PyStr(S_hook)}
    /\ color = ""
    /\ compact = FALSE
    /\ link_prefix = None
    /\ link_fields = {}
    /\ render_item = "None"
    /\ raw_data = NoInput
    /\ list_items = <<>>
    /\ index = 0
    /\ list_elements = <<>>
    /\ lines = <<>>
    /\ card = <<>>
    /\ posts = <<>>
    /\ response = NoResponse
    /\ sent = None
    /\ exit_code = -1
    /\ stderr = <<>>

\* sys.exit(code) after print(diag, file=sys.stderr)
Die(diag, code) ==
    /\ stderr' = Append(stderr, diag)
    /\ exit_code' = code
    /\ pc' = "exit"

\* Module level: FEISHU_WEBHOOK_URL must be set.
Load ==
    /\ pc = "load"
    /\ IF ~Truthy(webhook)
       THEN Die("webhook_unset", 1)
       ELSE /\ pc' = IF entry = "main" THEN "args" ELSE "call"
            /\ UNCHANGED <<stderr, exit_code>>
    /\ UNCHANGED <<entry, webhook, argVars, raw_data, list_items, loopVars,
                   card, sendVars>>

\* main: parser.parse_args() and the parsing of --link-fields.
ParseArgs ==
    /\ pc = "args"
    /\ \E c \in Themes :
         /\ color' = c
         /\ IF ~ColorAccepted(c)
            THEN /\ Die("argparse_error", 2)
                 /\ UNCHANGED <<compact, link_prefix, link_fields>>
            ELSE /\ \E cp \in BOOLEAN, lp \in 1..Len(LinkPrefixes) :
                      /\ compact' = cp
                      /\ link_prefix' = LinkPrefixes[lp]
                 /\ link_fields' = ParseLinkFields(S_link_fields_arg)
                 /\ pc' = "read"
                 /\ UNCHANGED <<stderr, exit_code>>
    /\ UNCHANGED <<entry, webhook, render_item, raw_data, list_items,
                   loopVars, card, sendVars>>

\* main: the try block that reads and parses the input.
ReadWith(inp) ==
    /\ raw_data' = inp
    /\ LET r == ReadResult(inp)
       IN  IF r.ok
           THEN /\ list_items' = r.items
                /\ pc' = "build"
                /\ UNCHANGED <<stderr, exit_code>>
           ELSE /\ Die(r.diag, 1)
                /\ UNCHANGED list_items

ReadInput ==
    /\ pc = "read"
    /\ \/ \E k \in {"missing_file", "unreadable", "invalid_json"} :
            ReadWith([kind |-> k, value |-> None])
       \/ \E n \in 1..Len(NonArrays) :
            ReadWith([kind |-> "json", value |-> NonArrays[n]])
       \/ \E l \in IndexLists(MaxItems) :
            ReadWith([kind |-> "json",
                      value |-> PyList([i \in 1..Len(l) |-> Pool[l[i]]])])
    /\ UNCHANGED <<entry, webhook, argVars, loopVars, card, sendVars>>

\* main calls create_feishu_list_card: the function up to its loop.
MainCreateCard ==
    /\ pc = "build"
    /\ index' = 0
    /\ list_elements' = <<>>
    /\ lines' = <<>>
    /\ pc' = "loop"
    /\ UNCHANGED <<entry, webhook, argVars, raw_data, list_items, card,
                   sendVars, exit_code, stderr>>

\* Other code calls create_feishu_list_card: the function up to its loop.
\* link_fields is left None, so DEFAULT_LINK_FIELDS applies.  A custom
\* renderer reads neither link_prefix nor compact, which keep their defaults.
ApiCreateCard ==
    /\ pc = "call"
    /\ \E c \in Themes, r \in {"None", "render_position", "render_name"},
          cp \in BOOLEAN, lp \in 1..Len(LinkPrefixes),
          l \in IndexLists(MaxItems) :
         /\ r # "None" => (cp = FALSE /\ lp = 1)
         /\ color' = c
         /\ render_item' = r
         /\ compact' = cp
         /\ link_prefix' = LinkPrefixes[lp]
         /\ list_items' = [i \in 1..Len(l) |-> Pool[l[i]]]
    /\ link_fields' = DEFAULT_LINK_FIELDS
    /\ index' = 0
    /\ list_elements' = <<>>
    /\ lines' = <<>>
    /\ pc' = "loop"
    /\ UNCHANGED <<entry, webhook, raw_data, card, sendVars, exit_code, stderr>>

\* One iteration of "for index, item in enumerate(list_items)".
RenderStep ==
    /\ pc = "loop"
    /\ index < Len(list_items)
    /\ LET outcome == CallRender(render_item, list_items[index + 1], index,
                                 list_items, link_fields, link_prefix, compact)
       IN  /\ list_elements' = AppendElement(list_elements, RenderContent(outcome))
           /\ lines' = outcome.lines
    /\ index' = index + 1
    /\ UNCHANGED <<entry, pc, webhook, argVars, raw_data, list_items, card,
                   sendVars, exit_code, stderr>>

\* The loop is over: the document is returned.
ReturnCard ==
    /\ pc = "loop"
    /\ index = Len(list_items)
    /\ card' = <<Card(S_default_title, S_default_header, color, TRUE,
                     list_elements)>>
    /\ pc' = IF entry = "main" THEN "send" ELSE "returned"
    /\ UNCHANGED <<entry, webhook, argVars, raw_data, list_items, loopVars,
                   sendVars, exit_code, stderr>>

\* main calls send_feishu_card(card): one requests.post, whatever it answers.
SendCard ==
    /\ pc = "send"
    /\ \E n \in 1..Len(Responses), jsonExc \in {"RequestException", "ValueError"} :
         /\ Responses[n].kind # "invalid_json" => jsonExc = "ValueError"
         /\ posts' = Append(posts, [msg_type |-> "interactive", card |-> card[1]])
         /\ response' = Responses[n]
         /\ LET r == SendResult(Responses[n], jsonExc)
            IN  /\ sent' = PyBool(r.ret)
                /\ stderr' = Append(stderr, r.diag)
    /\ pc' = "sent"
    /\ UNCHANGED <<entry, webhook, argVars, raw_data, list_items, loopVars,
                   card, exit_code>>

\* main: sys.exit(0) or sys.exit(1) on the result of send_feishu_card.
Exit ==
    /\ pc = "sent"
    /\ exit_code' = ExitCode(sent.b)
    /\ pc' = "exit"
    /\ UNCHANGED <<entry, webhook, argVars, raw_data, list_items, loopVars,
                   card, sendVars, stderr>>

Next ==
    \/ Load
    \/ ParseArgs
    \/ ReadInput
    \/ MainCreateCard
    \/ ApiCreateCard
    \/ RenderStep
    \/ ReturnCard
    \/ SendCard
    \/ Exit

Spec == Init /\ [][Next]_vars

(***************************************************************************)
(* Vocabulary of the properties.                                           *)
(***************************************************************************)
\* the outcome of rendering record i (counted from 1) of items
OutcomeOf(items, i) ==
    CallRender(render_item, items[i], i - 1, items, link_fields, link_prefix,
               compact)

\* the content a block must have for a renderer outcome
ExpectedContent(outcome) ==
    IF outcome.ok THEN outcome.v ELSE S_render_error \o outcome.exc

\* record i has been rendered and its rendering raised
Faulted(i) == i \in 1..index /\ ~OutcomeOf(list_items, i).ok

\* the input of main was parsed into an array
Parsed == raw_data.kind = "json" /\ raw_data.value.t = "list"

\* the webhook confirmed the delivery: it answered a JSON object whose code
\* equals 0 (in Python False == 0), whatever its other members
DeliveryOk ==
    /\ response.kind = "json"
    /\ response.body.t = "dict"
    /\ \E j \in 1..Len(response.body.d) :
         /\ response.body.d[j][1] = S_code
         /\ response.body.d[j][2] \in {PyInt(0), PyBool(FALSE)}

\* default_render has just built lines from record number index, a dict
LinesOfLastItem ==
    /\ render_item = "None"
    /\ index >= 1
    /\ list_items[index].t = "dict"

LastKey(j) == list_items[index].d[j][1]
LastValue(j) == list_items[index].d[j][2]

\* v is a str that begins with http:// or https://
BeginsWithHttp(v) ==
    v.t = "str" /\ (StartsWith(v.s, S_httpSlash) \/ StartsWith(v.s, S_httpsSlash))

\* v is a str that begins with http:// or https:// once surrounding
\* whitespace is stripped
BeginsWithHttpStripped(v) ==
    v.t = "str" /\ (\/ StartsWith(Strip(v.s), S_httpSlash)
                    \/ StartsWith(Strip(v.s), S_httpsSlash))

\* "<k>: [<label>](<url>)"
LinkLine(k, url) ==
    k \o <<":", " ", "[">> \o S_display_text \o <<"]", "(">> \o url \o <<")">>

\* "<k>: <v>", with the dash for None
PlainLine(k, v) ==
    k \o <<":", " ">> \o (IF v.t = "none" THEN S_dash ELSE PyToStr(v))

(***************************************************************************)
(* C1.  The returned document has one header block followed by one block   *)
(* per input record, and block i is the rendering of record i (or its      *)
(* fault placeholder): nothing is dropped, duplicated, filtered or          *)
(* reordered.  While the loop runs, the blocks built so far are those of    *)
(* the first index records.                                                 *)
(***************************************************************************)
C1_OneBlockPerRecordInOrder ==
    /\ pc = "loop" =>
         /\ Len(list_elements) = index
         /\ \A i \in 1..index :
              list_elements[i].text.content
                = ExpectedContent(OutcomeOf(list_items, i))
    /\ card # <<>> =>
         /\ Len(card[1].elements) = Len(list_items) + 1
         /\ card[1].elements[1].text.content = S_default_header
         /\ \A i \in 1..Len(list_items) :
              /\ card[1].elements[i + 1].tag = "div"
              /\ card[1].elements[i + 1].text.tag = "lark_md"
              /\ card[1].elements[i + 1].text.content
                   = ExpectedContent(OutcomeOf(list_items, i))

\* a document was returned for two different records, the first of which
\* raised in a custom renderer
C1_Witness ==
    /\ card # <<>>
    /\ render_item = "render_name"
    /\ list_items = <<R6, R1>>

(***************************************************************************)
(* C2.  Per-record error isolation: when the rendering of record i raises, *)
(* the loop goes on (a run that has exited did so after the document was   *)
(* returned and posted); block i is the one-line placeholder naming the    *)
(* exception type; every other block is what it would be had record i been *)
(* any record that renders without fault; and the document still gets one  *)
(* block per record.                                                       *)
(***************************************************************************)
C2_FaultIsolation ==
    \A i \in 1..index :
        Faulted(i) =>
          /\ pc = "exit" => (card # <<>> /\ Len(posts) = 1)
          /\ Len(list_elements) = index
          /\ list_elements[i].text.content
               = S_render_error \o OutcomeOf(list_items, i).exc
          /\ OutcomeOf(list_items, i).exc
               \in {S_AttributeError, S_KeyError, S_TypeError}
          /\ "\n" \notin Range(list_elements[i].text.content)
          /\ \A r \in 1..Len(Pool), j \in 1..index :
               (j # i /\ OutcomeOf([list_items EXCEPT ![i] = Pool[r]], i).ok) =>
                 list_elements[j].text.content
                   = ExpectedContent(
                       OutcomeOf([list_items EXCEPT ![i] = Pool[r]], j))
          /\ card # <<>> => Len(card[1].elements) = Len(list_items) + 1

\* the first record raised in default_render and a later one was rendered
C2_Witness ==
    /\ render_item = "None"
    /\ index = 2
    /\ list_items = <<R6, R1>>
    /\ Faulted(1)
    /\ ~Faulted(2)

(***************************************************************************)
(* C3.  A run of main whose input is a missing file, unparsable JSON or    *)
(* JSON whose top-level value is no array ends at once with a non-zero     *)
(* exit status: no document is built and nothing is ever posted.           *)
(***************************************************************************)
C3_BadInputNeverDelivered ==
    (/\ entry = "main"
     /\ \/ raw_data.kind \in {"missing_file", "invalid_json"}
        \/ (raw_data.kind = "json" /\ raw_data.value.t # "list"))
    => /\ pc = "exit"
       /\ exit_code # 0
       /\ exit_code # -1
       /\ card = <<>>
       /\ posts = <<>>
       /\ response = NoResponse

\* main has read {"a": 1} and has exited
C3_Witness ==
    /\ entry = "main"
    /\ raw_data.kind = "json"
    /\ raw_data.value = PyDict(<< <<<<"a">>, PyInt(1)>> >>)
    /\ pc = "exit"

(***************************************************************************)
(* C4.  A run of main that parsed its input posts exactly once, the whole  *)
(* assembled document in the "interactive" envelope, and never again;      *)
(* whatever the webhook answers the process ends with sys.exit: status 0   *)
(* if and only if the delivery was confirmed, status 1 otherwise.          *)
(***************************************************************************)
C4_DeliveredOnceExitReflectsOutcome ==
    (entry = "main" /\ Parsed) =>
      /\ Len(posts) <= 1
      /\ pc \in {"build", "loop", "send"} => posts = <<>>
      /\ pc \in {"sent", "exit"} =>
           /\ Len(posts) = 1
           /\ posts[1].msg_type = "interactive"
           /\ posts[1].card = card[1]
           /\ Len(posts[1].card.elements) = Len(list_items) + 1
           /\ response.kind # "none"
           /\ sent.t = "bool"
           /\ sent.b <=> DeliveryOk
      /\ pc = "exit" =>
           /\ exit_code \in {0, 1}
           /\ exit_code = 0 <=> DeliveryOk

\* main has exited after a post that timed out
C4_Witness ==
    /\ entry = "main"
    /\ pc = "exit"
    /\ Len(posts) = 1
    /\ response.kind = "timeout"
    /\ exit_code = 1

(***************************************************************************)
(* The four kinds of fault of a run.                                       *)
(***************************************************************************)
\* the arguments were received: args = parser.parse_args() in main, the call
\* of create_feishu_list_card otherwise; color is then the theme given
ThemeGiven == Truthy(webhook) /\ pc \notin {"load", "args", "call"}

\* the endpoint credential is missing, or main was given an invalid theme
ConfigurationError ==
    \/ ~Truthy(webhook) /\ pc # "load"
    \/ entry = "main" /\ ThemeGiven /\ color \notin COLORS

\* main could not read its input as a JSON array
InputFormatError == raw_data.kind # "none" /\ ~Parsed

\* the rendering of some record raised
RenderFault == \E i \in 1..index : Faulted(i)

\* the post was made and the webhook did not confirm it
DeliveryFault == response.kind # "none" /\ ~DeliveryOk

\* the diagnostics of the failure paths
FailureDiagnostics ==
    {"webhook_unset", "argparse_error", "file_not_found", "json_decode_error",
     "read_error", "timeout", "network_error", "unknown_exception",
     "send_failed_code"}

(***************************************************************************)
(* C5 as stated.  Every run in which a fault of any of the four kinds      *)
(* occurred, a render fault included, ends with a non-zero exit status and *)
(* a failure diagnostic.                                                   *)
(***************************************************************************)
C5_AnyFaultExitsNonZero ==
    (/\ pc = "exit"
     /\ ConfigurationError \/ InputFormatError \/ RenderFault \/ DeliveryFault)
    => /\ exit_code # 0
       /\ stderr # <<>>
       /\ stderr[Len(stderr)] \in FailureDiagnostics

(***************************************************************************)
(* C5 amended.  Every run of main in which a configuration error, an       *)
(* input-format error or a delivery fault occurred ends with a non-zero    *)
(* exit status and the diagnostic of that fault as the last line printed.  *)
(* A render fault is recovered inside the document, as the placeholder     *)
(* block of its record, and does not change the exit status: a run in      *)
(* which a record's rendering raised exits 0 exactly when the delivery was *)
(* confirmed.                                                              *)
(***************************************************************************)
C5_FatalFaultsExitNonZero ==
    /\ (pc = "exit" /\ (ConfigurationError \/ InputFormatError \/ DeliveryFault))
       => /\ exit_code \in {1, 2}
          /\ stderr # <<>>
          /\ stderr[Len(stderr)] \in FailureDiagnostics
          /\ ~Truthy(webhook) => stderr = <<"webhook_unset">>
          /\ (Truthy(webhook) /\ color \notin COLORS)
               => stderr = <<"argparse_error">>
          /\ raw_data.kind = "missing_file" => stderr = <<"file_not_found">>
          /\ raw_data.kind = "invalid_json" => stderr = <<"json_decode_error">>
          /\ (raw_data.kind = "unreadable"
                \/ (raw_data.kind = "json" /\ raw_data.value.t # "list"))
               => stderr = <<"read_error">>
          /\ DeliveryFault =>
               stderr[Len(stderr)] \in {"timeout", "network_error",
                                        "unknown_exception", "send_failed_code"}
    /\ (pc = "exit" /\ RenderFault)
       => /\ \A i \in 1..index :
               Faulted(i) =>
                 posts[1].card.elements[i + 1].text.content
                   = S_render_error \o OutcomeOf(list_items, i).exc
          /\ exit_code = 0 <=> DeliveryOk
    /\ (pc = "exit" /\ exit_code = 0) => stderr = <<"sent_ok">>

\* a run in which a record's rendering raised has exited with status 0
C5_Witness ==
    /\ pc = "exit"
    /\ RenderFault
    /\ DeliveryOk
    /\ exit_code = 0

(***************************************************************************)
(* C6 as stated.  create_feishu_list_card returns no document for a theme  *)
(* outside COLORS, and returns one for every theme in COLORS.              *)
(***************************************************************************)
C6_AssemblerRejectsInvalidTheme ==
    /\ (ThemeGiven /\ color \notin COLORS) => card = <<>>
    /\ (color \in COLORS /\ pc \in {"send", "sent", "returned"}) => card # <<>>

(***************************************************************************)
(* C6 amended.  The theme is validated by the argument parser of main      *)
(* (choices=COLORS), not by create_feishu_list_card: a run of main given a *)
(* theme outside COLORS exits with status 2 before any input is read, any  *)
(* document is assembled or any delivery is attempted, so main never posts *)
(* a document with an invalid theme; create_feishu_list_card itself        *)
(* returns a document carrying whatever theme it is given, and with a      *)
(* valid theme assembly always succeeds.                                   *)
(***************************************************************************)
C6_ThemeValidatedByArgumentParser ==
    /\ (entry = "main" /\ ThemeGiven /\ color \notin COLORS)
       => /\ pc = "exit"
          /\ exit_code = 2
          /\ raw_data = NoInput
          /\ list_elements = <<>>
          /\ card = <<>>
          /\ posts = <<>>
    /\ \A n \in 1..Len(posts) : posts[n].card.header.template \in COLORS
    /\ card # <<>> => card[1].header.template = color
    /\ pc \in {"send", "sent", "returned"} => card # <<>>

\* main was given the theme "neon" and has exited with status 2
C6_Witness ==
    /\ entry = "main"
    /\ color = "neon"
    /\ pc = "exit"
    /\ exit_code = 2

(***************************************************************************)
(* Field rendering.  In a state where LinesOfLastItem holds, lines[j] is   *)
(* the line default_render built for field j of record number index.       *)
(***************************************************************************)
\* the field names that carry a status
StatusFields == {S_status}

\* the link check produced a link for field j
LinkFired(j) ==
    /\ LastKey(j) \in link_fields
    /\ Truthy(ensure_url(LastValue(j), link_prefix))

(***************************************************************************)
(* C7.  With the default glyph mapping, a status field whose value is a    *)
(* str that, lowercased, is a key of the mapping, and for which the link   *)
(* check did not fire, is rendered "<k>: <glyph> <v>" with the glyph of    *)
(* the lowercased value, whatever the letter case of the value.            *)
(***************************************************************************)
C7_StatusGlyphAnyCase ==
    LinesOfLastItem =>
      \A j \in 1..Len(list_items[index].d) :
        (/\ LastKey(j) \in StatusFields
         /\ ~LinkFired(j)
         /\ LastValue(j).t = "str"
         /\ InDict(DEFAULT_EMOJI_MAP, Lower(LastValue(j).s)))
        => lines[j] = LastKey(j) \o <<":", " ">>
                        \o DictGet(DEFAULT_EMOJI_MAP, Lower(LastValue(j).s)).s
                        \o <<" ">> \o LastValue(j).s

(***************************************************************************)
(* C8 as stated.  For a field whose key is a link field: a str value that  *)
(* begins with http:// or https:// is rendered as a link to that same URL, *)
(* with or without a base URL; any other value, when no base URL is        *)
(* configured, is rendered by the plain fallback.                          *)
(***************************************************************************)
C8_LinkDecision ==
    LinesOfLastItem =>
      \A j \in 1..Len(list_items[index].d) :
        LastKey(j) \in link_fields =>
          /\ BeginsWithHttp(LastValue(j))
               => lines[j] = LinkLine(LastKey(j), LastValue(j).s)
          /\ (~BeginsWithHttp(LastValue(j)) /\ ~Truthy(link_prefix))
               => lines[j] = PlainLine(LastKey(j), LastValue(j))

(***************************************************************************)
(* C8 amended.  For a field whose key is a link field: a str value that,   *)
(* once surrounding whitespace is stripped, begins with http:// or         *)
(* https:// is rendered as a link to that stripped URL, with or without a  *)
(* base URL; any other value, when no base URL is configured, produces no  *)
(* link and is rendered by the plain fallback "<k>: <v>" (the dash for     *)
(* None).                                                                  *)
(***************************************************************************)
C8_LinkDecisionStripped ==
    LinesOfLastItem =>
      \A j \in 1..Len(list_items[index].d) :
        LastKey(j) \in link_fields =>
          /\ BeginsWithHttpStripped(LastValue(j))
               => lines[j] = LinkLine(LastKey(j), Strip(LastValue(j).s))
          /\ (~BeginsWithHttpStripped(LastValue(j)) /\ ~Truthy(link_prefix))
               => /\ lines[j] = PlainLine(LastKey(j), LastValue(j))
                  /\ ~StartsWith(lines[j], LastKey(j) \o <<":", " ", "[">>)

\* without a base URL, default_render has rendered a record with a relative
\* link value and a link value that is an absolute URL padded with whitespace
C8_Witness ==
    /\ LinesOfLastItem
    /\ list_items[index] = R3
    /\ link_prefix = None
    /\ lines[1] = PlainLine(S_url, PyStr(S_slash42))
    /\ lines[2] = LinkLine(S_link, S_x_com)

(***************************************************************************)
(* C9.  For a field whose key is a link field and whose value is no        *)
(* absolute http(s) URL, whenever a base URL is configured the field is    *)
(* rendered as a link to the base URL, normalized to end with exactly one  *)
(* "/", followed by the value with its leading "/" stripped; this for      *)
(* every such value, a number or the empty string included.                *)
(***************************************************************************)
C9_BaseUrlCompletion ==
    (LinesOfLastItem /\ Truthy(link_prefix)) =>
      \A j \in 1..Len(list_items[index].d) :
        (LastKey(j) \in link_fields /\ ~BeginsWithHttpStripped(LastValue(j)))
        => lines[j] = LinkLine(LastKey(j),
                               RStripChar(link_prefix.s, "/") \o <<"/">>
                                 \o LStripChar(PyToStr(LastValue(j)), "/"))

(***************************************************************************)
(* C10.  End to end: main in compact mode, given the one record            *)
(* {"name": "A", "url": "https://x.com", "status": "success"}, builds a    *)
(* document whose single item block is                                     *)
(* "name: A | url: [<label>](https://x.com) | status: <success glyph> success". *)
(***************************************************************************)
C10_EndToEndCompact ==
    (entry = "main" /\ compact /\ list_items = <<R1>> /\ card # <<>>) =>
      /\ Len(card[1].elements) = 2
      /\ card[1].elements[2].text.content
           = S_name \o <<":", " ">> \o S_A \o <<" ", "|", " ">>
               \o LinkLine(S_url, S_x_com) \o <<" ", "|", " ">>
               \o S_status \o <<":", " ">> \o G_check \o <<" ">> \o S_success

=============================================================================
